---- MODULE Spec2Model ----
(***************************************************************************)
(* Model of the mammography browser's data pipeline:                       *)
(*   DataIngestion / _DataIngestion  (CSV -> augmented table -> SQLite),   *)
(*   DatabaseHandler                 (connection handle, query primitives),*)
(*   PatientDataFilterLogic          (orchestrator over DatabaseHandler).  *)
(*   DicomHandler                    (first DICOM file of a folder).       *)
(* The specifications share the variables:                                 *)
(*   SpecIngest  : the ingestion steps of one DataIngestion object,        *)
(*   Spec        : the orchestrator, over every table ingestion persists,  *)
(*   SpecHandle  : one DatabaseHandler object and its query primitives,    *)
(*   SpecFilter  : the row filters of DatabaseHandler on arbitrary rows,   *)
(*   SpecReadAll : query primitives and orchestrator calls interleaved,    *)
(*   SpecSession : an orchestrator call, one with-block step at a time,    *)
(*   SpecDicom   : DicomHandler over the folders a path can point to.      *)
(***************************************************************************)
EXTENDS Integers, Sequences, FiniteSets, TLC

VARIABLES
    csvFindings,          \* the findings CSV on disk: <<>> (missing) or <<table>>
    csvMetadata,          \* the file-location CSV on disk: <<>> or <<table>>
    variant,              \* which ingestion module the caller uses
    mass_data_train_df,   \* DataIngestion attribute: <<>> (no attribute) or <<df>>
    metadata_df,          \* DataIngestion attribute: <<>> or <<sequence of records>>
    patient_data_df,      \* DataIngestion attribute: <<>> or <<df>>
    database_exists,      \* DataIngestion attribute: "unset", "True", "False"
    store,                \* the 'patients' relation of clinical_database.db
    connection,           \* DatabaseHandler.connection: "None", "open", "closed"
    folder,               \* the folder a DICOM path points to
    dcmh,                 \* the DicomHandler object: dicom_path, dataset
    pc,                   \* position inside the orchestrator call in progress
    handles,              \* connection of each DatabaseHandler the call created
    ret                   \* outcome of the last operation (what its caller sees)

vars == <<csvFindings, csvMetadata, variant, mass_data_train_df, metadata_df,
          patient_data_df, database_exists, store, connection, folder, dcmh,
          pc, handles, ret>>

dicomVars == <<folder, dcmh>>

sessionVars == <<pc, handles>>

-----------------------------------------------------------------------------
(* Bounds and input domains                                                *)

MaxRows == 2

PatientIds == {"P_00001", "P_00002"}
Sides == {"LEFT", "right"}
Views == {"CC", "MLO"}
MaskSubject == "M1"

\* Arguments callers pass to the read side.
PatientIdArgs == {"P_00001", "P_99999", ""}
SideArgs == {"left", "RIGHT"}
ViewArgs == {"CC", "mlo"}
ColumnArgs == {"patient_id", "left or right breast", "image view",
               "nonexistent_column", "PATIENT_ID"}

Null == "<NULL>"

\* str.upper() on the strings of the model.
Upper(s) ==
    CASE s = "left" -> "LEFT"
      [] s = "right" -> "RIGHT"
      [] s = "cc" -> "CC"
      [] s = "mlo" -> "MLO"
      [] OTHER -> s

\* Binary collation (ORDER BY on TEXT): position in this list.
Collation == <<"CC", "LEFT", "MLO", "P_00001", "P_00002", "right">>

-----------------------------------------------------------------------------
(* Tables                                                                  *)

\* Columns of mass_case_description_train_set.csv, in file order.
CsvColumns ==
    <<"patient_id", "breast_density", "left or right breast", "image view",
      "abnormality id", "abnormality type", "mass shape", "mass margins",
      "assessment", "pathology", "subtlety", "image file path",
      "cropped image file path", "ROI mask file path">>

PathColumns == <<"global image dicom path", "global mask dicom path">>

\* Position (1-based) of a column name in a column list; 0 when absent.
ColumnPos(columns, name) ==
    IF \E i \in DOMAIN columns : columns[i] = name
    THEN CHOOSE i \in DOMAIN columns : columns[i] = name
    ELSE 0

\* The subject (folder) an image of a view is filed under.
SubjectOf(view) == IF view = "CC" THEN "S1" ELSE "S2"

\* One findings row: a relative path is the sequence of its '/'-segments.
FindingRow(pid, side, view) ==
    <<pid, "2", side, view, "1", "mass", "OVAL", "OBSCURED", "4",
      "MALIGNANT", "3", <<SubjectOf(view), "000000.dcm">>,
      <<SubjectOf(view), "000001.dcm">>, <<MaskSubject, "000001.dcm">>>>

FindingRows ==
    {FindingRow(p, s, v) : p \in PatientIds, s \in Sides, v \in Views}

DataFrame(columns, rows) == [columns |-> columns, rows |-> rows]

FindingsTables ==
    {DataFrame(CsvColumns, r) :
        r \in UNION {[1..n -> FindingRows] : n \in 0..MaxRows}}

\* File-location index: records of metadata.csv, in file order.
MetaRecord(subject, location) == [SubjectID |-> subject, FileLocation |-> location]

MetaBase ==
    <<MetaRecord("S1", <<".", "CBIS", "d1">>),
      MetaRecord("M1", <<".", "CBIS", "m1">>),
      MetaRecord("S2", <<".", "CBIS", "d2">>),
      MetaRecord("S1", <<"/", "mnt", "d3">>)>>

RECURSIVE Pick(_, _, _)
Pick(seq, keep, i) ==
    IF i > Len(seq) THEN <<>>
    ELSE (IF i \in keep THEN <<seq[i]>> ELSE <<>>) \o Pick(seq, keep, i + 1)

MetadataTables == {Pick(MetaBase, keep, 1) : keep \in SUBSET DOMAIN MetaBase}

None == <<>>
Some(x) == <<x>>

\* The database file: openable (sqlite3.connect succeeds on its path), and the
\* 'patients' relation in it, if any.
Unopenable == [openable |-> FALSE, exists |-> FALSE, columns |-> <<>>, rows |-> <<>>]

NoTable == [openable |-> TRUE, exists |-> FALSE, columns |-> <<>>, rows |-> <<>>]

Table(df) == [openable |-> TRUE, exists |-> TRUE, columns |-> df.columns,
              rows |-> df.rows]

\* No DICOM folder in play, no DicomHandler constructed, no orchestrator call
\* in progress.
NoFolder == [is_dir |-> FALSE, entries |-> <<>>]

NoDicomHandler == [exists |-> FALSE, dicom_path |-> None, dataset |-> None]

Idle ==
    /\ folder = NoFolder
    /\ dcmh = NoDicomHandler
    /\ pc = "idle"
    /\ handles = <<>>

Ok(v) == [err |-> "none", val |-> v]
Err(e) == [err |-> e, val |-> <<>>]

-----------------------------------------------------------------------------
(* DataIngestion: path linking                                             *)

\* self.data_path (Path.home() / '.../manifest-...'), as path segments.
data_path == <<"/", "home", "Data">>

\* pathlib's base / other: an absolute right operand replaces the base, and
\* '.' segments are dropped.
PathJoin(base, other) ==
    IF other # <<>> /\ other[1] = "/" THEN other
    ELSE base \o SelectSeq(other, LAMBDA seg : seg # ".")

\* df.loc[df['Subject ID'] == name]
SubjectMatches(meta, name) == SelectSeq(meta, LAMBDA r : r.SubjectID = name)

\* _get_full_dicom_path that falls back to the base directory on no match.
GetFullDicomPath_Fallback(row, metaOpt) ==
    LET image_folder_name == row[12][1]
        mask_folder_name == row[14][1]
    IN  IF metaOpt = None THEN Err("AttributeError")
        ELSE LET metadata_image_folder == SubjectMatches(metaOpt[1], image_folder_name)
                 metadata_mask_folder == SubjectMatches(metaOpt[1], mask_folder_name)
             IN  Ok(<<IF metadata_image_folder = <<>> THEN data_path
                      ELSE PathJoin(data_path, metadata_image_folder[1].FileLocation),
                      IF metadata_mask_folder = <<>> THEN data_path
                      ELSE PathJoin(data_path, metadata_mask_folder[1].FileLocation)>>)

\* DataIngestion._get_full_dicom_path(row): metaOpt is the metadata_df
\* attribute (None when patient_data_to_df never set it).
GetFullDicomPath(row, metaOpt) ==
    LET image_folder_name == row[12][1]
        mask_folder_name == row[14][1]
    IN  IF metaOpt = None THEN Err("AttributeError")
        ELSE LET metadata_image_folder == SubjectMatches(metaOpt[1], image_folder_name)
                 metadata_mask_folder == SubjectMatches(metaOpt[1], mask_folder_name)
             IN  IF metadata_image_folder = <<>> THEN Err("IndexError")
                 ELSE IF metadata_mask_folder = <<>> THEN Err("IndexError")
                 ELSE Ok(<<PathJoin(data_path, metadata_image_folder[1].FileLocation),
                           PathJoin(data_path, metadata_mask_folder[1].FileLocation)>>)

\* DataFrame.apply(f, axis=1): rows in order, the first exception ends it.
RECURSIVE ApplyRows(_, _, _)
ApplyRows(rows, metaOpt, i) ==
    IF i > Len(rows) THEN Ok(<<>>)
    ELSE LET one == GetFullDicomPath(rows[i], metaOpt)
         IN  IF one.err # "none" THEN Err(one.err)
             ELSE LET rest == ApplyRows(rows, metaOpt, i + 1)
                  IN  IF rest.err # "none" THEN Err(rest.err)
                      ELSE Ok(<<one.val>> \o rest.val)

\* Rows with the two derived path columns appended.
WithPaths(rows, paths) == [i \in DOMAIN rows |-> rows[i] \o paths[i]]

\* patient_data_df_with_dicom_paths that starts from an empty frame when the
\* findings table was never loaded, in place of returning.
LinkPaths_NoGuard(massOpt, metaOpt, pdfOpt) ==
    IF massOpt = None
    THEN [err |-> "none", pdf |-> Some(DataFrame(CsvColumns, <<>>)), linked |-> FALSE]
    ELSE LET copy == massOpt[1]
             paths == ApplyRows(copy.rows, metaOpt, 1)
         IN  IF copy.rows = <<>>
             THEN [err |-> "KeyError", pdf |-> Some(copy), linked |-> FALSE]
             ELSE IF paths.err # "none"
             THEN [err |-> paths.err, pdf |-> Some(copy), linked |-> FALSE]
             ELSE [err |-> "none",
                   pdf |-> Some(DataFrame(copy.columns \o PathColumns,
                                          WithPaths(copy.rows, paths.val))),
                   linked |-> TRUE]

\* DataIngestion.patient_data_df_with_dicom_paths: the exception raised (or
\* "none") and the patient_data_df attribute the call leaves behind.
LinkPaths(massOpt, metaOpt, pdfOpt) ==
    IF massOpt = None THEN [err |-> "none", pdf |-> pdfOpt, linked |-> FALSE]
    ELSE LET copy == massOpt[1]
             paths == ApplyRows(copy.rows, metaOpt, 1)
         IN  IF copy.rows = <<>>
             \* apply() on an empty frame returns a copy of the frame, which
             \* has no column 0: paths[0] raises KeyError.
             THEN [err |-> "KeyError", pdf |-> Some(copy), linked |-> FALSE]
             ELSE IF paths.err # "none"
             THEN [err |-> paths.err, pdf |-> Some(copy), linked |-> FALSE]
             ELSE [err |-> "none",
                   pdf |-> Some(DataFrame(copy.columns \o PathColumns,
                                          WithPaths(copy.rows, paths.val))),
                   linked |-> TRUE]

\* _DataIngestion._path_to_dicoms(patient_num): the older, index-based lookup.
PathToDicoms(rows, patient_num, metaOpt) ==
    LET image_folder_name == rows[patient_num][12][1]
        mask_folder_name == rows[patient_num][14][1]
    IN  IF metaOpt = None THEN Err("AttributeError")
        ELSE LET metadata_image_folder == SubjectMatches(metaOpt[1], image_folder_name)
                 metadata_mask_folder == SubjectMatches(metaOpt[1], mask_folder_name)
             IN  IF metadata_image_folder = <<>> THEN Err("IndexError")
                 ELSE IF metadata_mask_folder = <<>> THEN Err("IndexError")
                 ELSE Ok(<<PathJoin(data_path, metadata_image_folder[1].FileLocation),
                           PathJoin(data_path, metadata_mask_folder[1].FileLocation)>>)

\* The for loop of _DataIngestion.patient_data_df_with_dicom_paths.
RECURSIVE LoopRows(_, _, _)
LoopRows(rows, metaOpt, patient_num) ==
    IF patient_num > Len(rows) THEN Ok(<<>>)
    ELSE LET one == PathToDicoms(rows, patient_num, metaOpt)
         IN  IF one.err # "none" THEN Err(one.err)
             ELSE LET rest == LoopRows(rows, metaOpt, patient_num + 1)
                  IN  IF rest.err # "none" THEN Err(rest.err)
                      ELSE Ok(<<one.val>> \o rest.val)

\* _DataIngestion.patient_data_df_with_dicom_paths (no guard, plain loop).
LinkPathsOld(massOpt, metaOpt, pdfOpt) ==
    IF massOpt = None THEN [err |-> "AttributeError", pdf |-> pdfOpt, linked |-> FALSE]
    ELSE LET copy == massOpt[1]
             paths == LoopRows(copy.rows, metaOpt, 1)
         IN  IF paths.err # "none"
             THEN [err |-> paths.err, pdf |-> Some(copy), linked |-> FALSE]
             ELSE [err |-> "none",
                   pdf |-> Some(DataFrame(copy.columns \o PathColumns,
                                          WithPaths(copy.rows, paths.val))),
                   linked |-> TRUE]

\* to_sql with if_exists='append'.
ToSqlAppend(old, df) ==
    [openable |-> TRUE, exists |-> TRUE, columns |-> df.columns,
     rows |-> old.rows \o df.rows]

\* df.to_sql(name='patients', if_exists='replace', index=False) on relation old.
ToSqlReplace(old, df) == Table(df)

-----------------------------------------------------------------------------
(* DataIngestion: the three steps, as the caller of one object sees them   *)

Variants == {"DataIngestion", "_DataIngestion"}

IngestRet(op, err) ==
    [op |-> op, err |-> err, wrote |-> FALSE, verified |-> FALSE, before |-> store]

\* DataIngestion.patient_data_to_df: read errors are printed, not raised.
patient_data_to_df ==
    /\ variant = "DataIngestion"
    /\ mass_data_train_df' = IF csvFindings = None THEN mass_data_train_df ELSE csvFindings
    /\ metadata_df' = IF csvFindings = None \/ csvMetadata = None
                      THEN metadata_df ELSE csvMetadata
    /\ ret' = IngestRet("patient_data_to_df", "none")
    /\ UNCHANGED <<csvFindings, csvMetadata, variant, patient_data_df,
                   database_exists, store, connection,
                   dicomVars, sessionVars>>

\* _DataIngestion.patient_data_to_df: read errors propagate.
Old_patient_data_to_df ==
    /\ variant = "_DataIngestion"
    /\ mass_data_train_df' = IF csvFindings = None THEN mass_data_train_df ELSE csvFindings
    /\ metadata_df' = IF csvFindings = None \/ csvMetadata = None
                      THEN metadata_df ELSE csvMetadata
    /\ ret' = IngestRet("patient_data_to_df",
                        IF csvFindings = None \/ csvMetadata = None
                        THEN "FileNotFoundError" ELSE "none")
    /\ UNCHANGED <<csvFindings, csvMetadata, variant, patient_data_df,
                   database_exists, store, connection,
                   dicomVars, sessionVars>>

patient_data_df_with_dicom_paths ==
    /\ variant = "DataIngestion"
    /\ LET r == LinkPaths(mass_data_train_df, metadata_df, patient_data_df)
       IN  /\ patient_data_df' = r.pdf
           /\ ret' = IngestRet("patient_data_df_with_dicom_paths", r.err)
    /\ UNCHANGED <<csvFindings, csvMetadata, variant, mass_data_train_df,
                   metadata_df, database_exists, store, connection,
                   dicomVars, sessionVars>>

Old_patient_data_df_with_dicom_paths ==
    /\ variant = "_DataIngestion"
    /\ LET r == LinkPathsOld(mass_data_train_df, metadata_df, patient_data_df)
       IN  /\ patient_data_df' = r.pdf
           /\ ret' = IngestRet("patient_data_df_with_dicom_paths", r.err)
    /\ UNCHANGED <<csvFindings, csvMetadata, variant, mass_data_train_df,
                   metadata_df, database_exists, store, connection,
                   dicomVars, sessionVars>>

\* patient_data_sql whose except clause leaves database_exists as it was.
patient_data_sql_NoReset ==
    /\ variant = "DataIngestion"
    /\ IF patient_data_df = None
       THEN /\ ret' = IngestRet("patient_data_sql", "none")
            /\ UNCHANGED <<store, database_exists>>
       ELSE \E writeOk \in (IF store.openable THEN BOOLEAN ELSE {FALSE}) :
              /\ store' = IF writeOk THEN ToSqlReplace(store, patient_data_df[1])
                          ELSE store
              /\ database_exists' = IF writeOk THEN "True" ELSE database_exists
              /\ ret' = [IngestRet("patient_data_sql", "none")
                            EXCEPT !.wrote = writeOk,
                                   !.verified = (database_exists' = "True")]
    /\ UNCHANGED <<csvFindings, csvMetadata, variant, mass_data_train_df,
                   metadata_df, patient_data_df, connection,
                   dicomVars, sessionVars>>

\* DataIngestion.patient_data_sql. writeOk: whether connect and to_sql
\* complete (a failure is caught and leaves the relation as it was).
patient_data_sql ==
    /\ variant = "DataIngestion"
    /\ IF patient_data_df = None
       THEN /\ ret' = IngestRet("patient_data_sql", "none")
            /\ UNCHANGED <<store, database_exists>>
       ELSE \E writeOk \in (IF store.openable THEN BOOLEAN ELSE {FALSE}) :
              /\ store' = IF writeOk THEN ToSqlReplace(store, patient_data_df[1])
                          ELSE store
              /\ database_exists' = IF writeOk THEN "True" ELSE "False"
              /\ ret' = [IngestRet("patient_data_sql", "none")
                            EXCEPT !.wrote = writeOk, !.verified = writeOk]
    /\ UNCHANGED <<csvFindings, csvMetadata, variant, mass_data_train_df,
                   metadata_df, patient_data_df, connection,
                   dicomVars, sessionVars>>

\* _DataIngestion.patient_data_sql: no pre-check, connect outside the try,
\* the read-back always attempted, database_exists never updated.
Old_patient_data_sql ==
    /\ variant = "_DataIngestion"
    /\ IF patient_data_df = None
       THEN /\ ret' = IngestRet("patient_data_sql", "AttributeError")
            /\ UNCHANGED store
       ELSE \E writeOk \in BOOLEAN :
            LET connectOk == store.openable IN
              /\ store' = IF connectOk /\ writeOk
                          THEN ToSqlReplace(store, patient_data_df[1]) ELSE store
              /\ ret' = [IngestRet("patient_data_sql",
                                   IF connectOk THEN "none" ELSE "sqlite3.OperationalError")
                            EXCEPT !.wrote = connectOk /\ writeOk,
                                   !.verified = connectOk]
    /\ UNCHANGED <<csvFindings, csvMetadata, variant, mass_data_train_df,
                   metadata_df, patient_data_df, database_exists, connection,
                   dicomVars, sessionVars>>

\* A relation left by an earlier ingestion run of an earlier dataset.
PriorFindings ==
    DataFrame(CsvColumns, <<FindingRow("P_00001", "LEFT", "CC"),
                            FindingRow("P_00002", "right", "MLO")>>)

PriorStores ==
    {Unopenable, NoTable, Table(LinkPaths(Some(PriorFindings), Some(MetaBase), None).pdf[1])}

InitIngest ==
    /\ csvFindings \in {None} \cup {Some(f) : f \in FindingsTables}
    /\ csvMetadata \in {None} \cup {Some(m) : m \in MetadataTables}
    /\ variant \in Variants
    /\ mass_data_train_df = None
    /\ metadata_df = None
    /\ patient_data_df = None
    /\ database_exists = IF variant = "DataIngestion" THEN "unset" ELSE "False"
    /\ store \in PriorStores
    /\ connection = "None"
    /\ Idle
    /\ ret = [op |-> "init", err |-> "none", wrote |-> FALSE, verified |-> FALSE,
              before |-> store]

NextIngest ==
    \/ patient_data_to_df
    \/ patient_data_df_with_dicom_paths
    \/ patient_data_sql
    \/ Old_patient_data_to_df
    \/ Old_patient_data_df_with_dicom_paths
    \/ Old_patient_data_sql

SpecIngest == InitIngest /\ [][NextIngest]_vars

-----------------------------------------------------------------------------
(* DatabaseHandler: query primitives                                       *)

OkQ(v, q) == [err |-> "none", val |-> v, q |-> q]
ErrQ(e, q) == [err |-> e, val |-> <<>>, q |-> q]

Range(seq) == {seq[i] : i \in DOMAIN seq}

\* DatabaseHandler.get_column_names on a handle whose connection attribute is
\* conn, over relation st. A closed sqlite3 connection object is still truthy.
GetColumnNames(conn, st) ==
    LET sql == [sql |-> "SELECT * FROM patients LIMIT 0", column |-> ""]
    IN  IF conn = "None" THEN ErrQ("ConnectionError", <<>>)
        ELSE IF conn = "closed" THEN ErrQ("sqlite3.ProgrammingError", <<>>)
        ELSE IF ~st.exists THEN ErrQ("sqlite3.OperationalError", <<sql>>)
        ELSE OkQ(st.columns, <<sql>>)

\* SELECT DISTINCT "c" FROM patients WHERE "c" IS NOT NULL ORDER BY "c"
SelectDistinct(st, pos) ==
    SelectSeq(Collation, LAMBDA v : \E i \in DOMAIN st.rows : st.rows[i][pos] = v)

\* get_distinct_values without the column check: SQLite reads a double-quoted
\* name that is no column as a string literal.
GetDistinctValues_NoCheck(conn, st, column_name) ==
    IF conn = "None" THEN ErrQ("ConnectionError", <<>>)
    ELSE LET actual_columns == GetColumnNames(conn, st)
             sql == [sql |-> "SELECT DISTINCT", column |-> column_name]
         IN  IF actual_columns.err # "none" THEN actual_columns
             ELSE IF column_name \notin Range(actual_columns.val)
             THEN OkQ(IF st.rows = <<>> THEN <<>> ELSE <<column_name>>,
                      actual_columns.q \o <<sql>>)
             ELSE OkQ(SelectDistinct(st, ColumnPos(st.columns, column_name)),
                      actual_columns.q \o <<sql>>)

\* DatabaseHandler.get_distinct_values
GetDistinctValues(conn, st, column_name) ==
    IF conn = "None" THEN ErrQ("ConnectionError", <<>>)
    ELSE LET actual_columns == GetColumnNames(conn, st)
             sql == [sql |-> "SELECT DISTINCT", column |-> column_name]
         IN  IF actual_columns.err # "none" THEN actual_columns
             ELSE IF column_name \notin Range(actual_columns.val)
             THEN ErrQ("ValueError", actual_columns.q)
             ELSE OkQ(SelectDistinct(st, ColumnPos(st.columns, column_name)),
                      actual_columns.q \o <<sql>>)

\* DatabaseHandler.get_rows_by_patient_id
GetRowsByPatientId(conn, st, patient_id) ==
    LET sql == [sql |-> "SELECT * FROM patients WHERE patient_id = ?", column |-> ""]
    IN  IF conn = "None" THEN ErrQ("ConnectionError", <<>>)
        ELSE IF conn = "closed" THEN ErrQ("sqlite3.ProgrammingError", <<>>)
        ELSE IF ~st.exists THEN ErrQ("sqlite3.OperationalError", <<sql>>)
        ELSE OkQ(SelectSeq(st.rows, LAMBDA row : row[1] = patient_id), <<sql>>)

\* The list comprehension of filter_by_breast_side / filter_by_image_view:
\* .upper() on a None argument or on a NULL cell raises AttributeError.
FilterByColumn(rows, column_index, value) ==
    IF value = Null THEN Err("AttributeError")
    ELSE IF \E i \in DOMAIN rows :
               Len(rows[i]) > column_index /\ rows[i][column_index + 1] = Null
    THEN Err("AttributeError")
    ELSE Ok(SelectSeq(rows, LAMBDA row :
               Len(row) > column_index /\ Upper(row[column_index + 1]) = Upper(value)))

\* DatabaseHandler.filter_by_breast_side
FilterByBreastSide(rows, side) == FilterByColumn(rows, 2, side)

\* DatabaseHandler.filter_by_image_view
FilterByImageView(rows, image_view) == FilterByColumn(rows, 3, image_view)

\* get_dicom_paths with the width guard and index one column short.
GetDicomPaths_OffByOne(rows) ==
    LET kept == SelectSeq(rows, LAMBDA row : Len(row) > 13)
    IN  [i \in DOMAIN kept |-> kept[i][14]]

\* DatabaseHandler.get_dicom_paths
GetDicomPaths(rows) ==
    LET kept == SelectSeq(rows, LAMBDA row : Len(row) > 14)
    IN  [i \in DOMAIN kept |-> kept[i][15]]

-----------------------------------------------------------------------------
(* PatientDataFilterLogic: the orchestrator                                *)

\* What DatabaseHandler hands back (cursor.fetchall(), list comprehensions)
\* is a Python list; these are the attributes a list has.
PyListAttributes ==
    {"append", "clear", "copy", "count", "extend", "index", "insert", "pop",
     "remove", "reverse", "sort"}

\* Attribute lookup on a value returned by DatabaseHandler.
HasAttribute(name) == name \in PyListAttributes

\* Series.unique().tolist(): distinct values in order of first appearance.
RECURSIVE Unique(_)
Unique(seq) ==
    IF seq = <<>> THEN <<>>
    ELSE LET front == Unique(SubSeq(seq, 1, Len(seq) - 1))
             last == seq[Len(seq)]
         IN  IF last \in Range(front) THEN front ELSE Append(front, last)

Column(rows, pos) == [i \in DOMAIN rows |-> rows[i][pos]]

\* DatabaseHandler.__enter__: sqlite3.connect on the handle's db_path.
Connect(st) == IF st.openable THEN Ok("open") ELSE Err("sqlite3.OperationalError")

\* PatientDataFilterLogic._get_full_filtered_data
GetFullFilteredData(st, patient_id, breast_side, image_view) ==
    IF Connect(st).err # "none" THEN Err("sqlite3.OperationalError")
    ELSE LET patient_df == GetRowsByPatientId("open", st, patient_id)
         IN  IF patient_df.err # "none" THEN Err(patient_df.err)
             ELSE LET side_filtered_df == FilterByBreastSide(patient_df.val, breast_side)
                  IN  IF side_filtered_df.err # "none" THEN Err(side_filtered_df.err)
                      ELSE FilterByImageView(side_filtered_df.val, image_view)

\* PatientDataFilterLogic.get_all_patient_ids: every exception becomes [].
GetAllPatientIds(st) ==
    IF Connect(st).err # "none" THEN [err |-> "none", val |-> <<>>, caught |-> "sqlite3.OperationalError"]
    ELSE LET ids == GetDistinctValues("open", st, "patient_id")
         IN  IF ids.err # "none"
             THEN [err |-> "none", val |-> <<>>, caught |-> ids.err]
             ELSE [err |-> "none", val |-> ids.val, caught |-> "none"]

\* PatientDataFilterLogic.get_dependent_options; breast_side = Null is None.
GetDependentOptions(st, patient_id, breast_side) ==
    LET options == [breast_sides |-> <<>>, image_views |-> <<>>]
        Caught(e) == [err |-> "none", val |-> options, caught |-> e]
    IN  IF patient_id = "" THEN Caught("none")
        ELSE IF Connect(st).err # "none" THEN Caught(Connect(st).err)
        ELSE LET patient_df == GetRowsByPatientId("open", st, patient_id)
             IN  IF patient_df.err # "none" THEN Caught(patient_df.err)
                 \* patient_df.empty
                 ELSE IF ~HasAttribute("empty") THEN Caught("AttributeError")
                 ELSE IF patient_df.val = <<>> THEN Caught("none")
                 ELSE IF breast_side # Null /\ breast_side # ""
                 THEN LET side_df == FilterByBreastSide(patient_df.val, breast_side)
                      IN  IF side_df.err # "none" THEN Caught(side_df.err)
                          ELSE [err |-> "none", caught |-> "none",
                                val |-> [breast_sides |-> Unique(Column(patient_df.val, 3)),
                                         image_views |-> Unique(Column(side_df.val, 4))]]
                 ELSE [err |-> "none", caught |-> "none",
                       val |-> [breast_sides |-> Unique(Column(patient_df.val, 3)),
                                image_views |-> Unique(Column(patient_df.val, 4))]]

\* DataFrame.drop(columns=columns_to_drop, errors='ignore'): the clinical
\* columns of each row (positions 2, 5..11 of the relation).
DropColumns(rows) ==
    [i \in DOMAIN rows |-> <<rows[i][2]>> \o SubSeq(rows[i], 5, 11)]

\* PatientDataFilterLogic.get_patient_filtered_data
GetPatientFilteredData(st, patient_id, breast_side, image_view) ==
    LET final_filtered_df ==
            GetFullFilteredData(st, patient_id, breast_side, image_view)
    IN  IF final_filtered_df.err # "none" THEN Err(final_filtered_df.err)
        \* final_filtered_df.drop
        ELSE IF ~HasAttribute("drop") THEN Err("AttributeError")
        ELSE Ok(DropColumns(final_filtered_df.val))

\* PatientDataFilterLogic.get_patient_dicom_path (it opens a second handle
\* around get_dicom_paths).
GetPatientDicomPath(st, patient_id, breast_side, image_view) ==
    LET final_filtered_df ==
            GetFullFilteredData(st, patient_id, breast_side, image_view)
    IN  IF final_filtered_df.err # "none" THEN Err(final_filtered_df.err)
        ELSE IF Connect(st).err # "none" THEN Err(Connect(st).err)
        ELSE LET dicom_paths == GetDicomPaths(final_filtered_df.val)
             IN  IF dicom_paths = <<>> THEN Err("FileNotFoundError")
                 ELSE Ok(dicom_paths[1])

-----------------------------------------------------------------------------
(* The read side: every relation ingestion can leave in the store          *)

MetaOpts == {None} \cup {Some(m) : m \in MetadataTables}

PersistedTables ==
    {Unopenable, NoTable}
    \cup {Table(LinkPaths(Some(f), mo, None).pdf[1]) :
             f \in FindingsTables, mo \in MetaOpts}
    \cup {Table(LinkPathsOld(Some(f), mo, None).pdf[1]) :
             f \in FindingsTables, mo \in MetaOpts}

InitRead ==
    /\ csvFindings = None
    /\ csvMetadata = None
    /\ variant = "DataIngestion"
    /\ mass_data_train_df = None
    /\ metadata_df = None
    /\ patient_data_df = None
    /\ database_exists = "unset"
    /\ store \in PersistedTables
    /\ connection = "None"
    /\ Idle
    /\ ret = [op |-> "init", args |-> <<>>, err |-> "none", val |-> <<>>]

ingestVars == <<csvFindings, csvMetadata, variant, mass_data_train_df,
                metadata_df, patient_data_df, database_exists>>

ReadRet(op, args, r) ==
    [op |-> op, args |-> args, err |-> r.err, val |-> r.val]

get_all_patient_ids ==
    LET r == GetAllPatientIds(store)
    IN  /\ ret' = [op |-> "get_all_patient_ids", args |-> <<>>, err |-> r.err,
                   val |-> r.val, caught |-> r.caught]
        /\ UNCHANGED <<ingestVars, store, connection,
                   dicomVars, sessionVars>>

get_dependent_options ==
    \E patient_id \in PatientIdArgs, breast_side \in SideArgs \cup {Null} :
      LET r == GetDependentOptions(store, patient_id, breast_side)
      IN  /\ ret' = [op |-> "get_dependent_options",
                     args |-> <<patient_id, breast_side>>,
                     err |-> r.err, val |-> r.val, caught |-> r.caught]
          /\ UNCHANGED <<ingestVars, store, connection,
                   dicomVars, sessionVars>>

get_patient_filtered_data ==
    \E patient_id \in PatientIdArgs \ {""},
       breast_side \in SideArgs, image_view \in ViewArgs :
      LET r == GetPatientFilteredData(store, patient_id, breast_side, image_view)
      IN  /\ ret' = ReadRet("get_patient_filtered_data",
                            <<patient_id, breast_side, image_view>>, r)
          /\ UNCHANGED <<ingestVars, store, connection,
                   dicomVars, sessionVars>>

get_patient_dicom_path ==
    \E patient_id \in PatientIdArgs \ {""},
       breast_side \in SideArgs, image_view \in ViewArgs :
      LET r == GetPatientDicomPath(store, patient_id, breast_side, image_view)
      IN  /\ ret' = ReadRet("get_patient_dicom_path",
                            <<patient_id, breast_side, image_view>>, r)
          /\ UNCHANGED <<ingestVars, store, connection,
                   dicomVars, sessionVars>>

\* app.py, main content: the record for the selected triple, then (when the
\* record is not empty) the image path for the same triple. Exceptions are
\* shown with st.error; err is the exception shown, path the path resolved.
MainContent(st, patient_id, breast_side, image_view) ==
    LET presentation_df == GetPatientFilteredData(st, patient_id, breast_side, image_view)
        dcm_path == GetPatientDicomPath(st, patient_id, breast_side, image_view)
    IN  IF presentation_df.err # "none"
        THEN [err |-> presentation_df.err, val |-> <<>>, path |-> None]
        ELSE IF presentation_df.val = <<>>
        THEN [err |-> "none", val |-> <<>>, path |-> None]
        ELSE IF dcm_path.err # "none"
        THEN [err |-> dcm_path.err, val |-> presentation_df.val, path |-> None]
        ELSE [err |-> "none", val |-> presentation_df.val, path |-> Some(dcm_path.val)]

main_content ==
    \E patient_id \in PatientIdArgs \ {""},
       breast_side \in SideArgs, image_view \in ViewArgs :
      LET r == MainContent(store, patient_id, breast_side, image_view)
      IN  /\ ret' = [op |-> "main_content",
                     args |-> <<patient_id, breast_side, image_view>>,
                     err |-> r.err, val |-> r.val, path |-> r.path]
          /\ UNCHANGED <<ingestVars, store, connection,
                         dicomVars, sessionVars>>

Next ==
    \/ get_all_patient_ids
    \/ get_dependent_options
    \/ get_patient_filtered_data
    \/ get_patient_dicom_path
    \/ main_content

Spec == InitRead /\ [][Next]_vars

-----------------------------------------------------------------------------
(* One DatabaseHandler object held by a caller (as _check_values.py does)  *)

HandleRet(op, args, r) ==
    [op |-> op, args |-> args, conn |-> connection, err |-> r.err, val |-> r.val,
     q |-> r.q]

\* DatabaseHandler.__init__
DatabaseHandlerInit ==
    /\ connection' = "None"
    /\ ret' = HandleRet("__init__", <<>>, OkQ(<<>>, <<>>))
    /\ UNCHANGED <<ingestVars, store, dicomVars, sessionVars>>

\* DatabaseHandler.__enter__: a failed connect re-raises and assigns nothing.
Enter ==
    LET c == Connect(store)
    IN  /\ connection' = IF c.err = "none" THEN "open" ELSE connection
        /\ ret' = HandleRet("__enter__", <<>>, ErrQ(c.err, <<>>))
        /\ UNCHANGED <<ingestVars, store, dicomVars, sessionVars>>

\* __exit__ that leaves the connection as it is.
CloseOnExit_Skip(conn) == conn

\* The body of __exit__: if self.connection: self.connection.close()
CloseOnExit(conn) == IF conn # "None" THEN "closed" ELSE conn

\* DatabaseHandler.__exit__: closes, and keeps the closed connection object.
Exit ==
    /\ connection' = CloseOnExit(connection)
    /\ ret' = HandleRet("__exit__", <<>>, OkQ(<<>>, <<>>))
    /\ UNCHANGED <<ingestVars, store, dicomVars, sessionVars>>

get_column_names ==
    /\ ret' = HandleRet("get_column_names", <<>>, GetColumnNames(connection, store))
    /\ UNCHANGED <<ingestVars, store, connection,
                   dicomVars, sessionVars>>

get_distinct_values ==
    \E column_name \in ColumnArgs :
      /\ ret' = HandleRet("get_distinct_values", <<column_name>>,
                          GetDistinctValues(connection, store, column_name))
      /\ UNCHANGED <<ingestVars, store, connection,
                   dicomVars, sessionVars>>

\* get_rows_by_patient_id issuing DELETE in place of SELECT.
get_rows_by_patient_id_Deleting ==
    \E patient_id \in PatientIdArgs :
      /\ ret' = HandleRet("get_rows_by_patient_id", <<patient_id>>,
                          GetRowsByPatientId(connection, store, patient_id))
      /\ store' = IF connection = "open" /\ store.exists
                  THEN [store EXCEPT !.rows = SelectSeq(store.rows,
                                         LAMBDA row : row[1] # patient_id)]
                  ELSE store
      /\ UNCHANGED <<ingestVars, connection, dicomVars, sessionVars>>

get_rows_by_patient_id ==
    \E patient_id \in PatientIdArgs :
      /\ ret' = HandleRet("get_rows_by_patient_id", <<patient_id>>,
                          GetRowsByPatientId(connection, store, patient_id))
      /\ UNCHANGED <<ingestVars, store, connection,
                   dicomVars, sessionVars>>

NextHandle ==
    \/ DatabaseHandlerInit
    \/ Enter
    \/ Exit
    \/ get_column_names
    \/ get_distinct_values
    \/ get_rows_by_patient_id

SpecHandle == InitRead /\ [][NextHandle]_vars

-----------------------------------------------------------------------------
(* One orchestrator call, a step per entry, body and exit of a with-block  *)

OrchestratorOps ==
    {"get_all_patient_ids", "get_dependent_options", "get_patient_filtered_data",
     "get_patient_dicom_path"}

EmptyOptions == [breast_sides |-> <<>>, image_views |-> <<>>]

\* The statements inside the with-block number block of method op, on an
\* open handle over st: the exception they raise (or "none") and their value.
\* df is what the first block of get_patient_dicom_path produced.
WithBlockBody(op, args, block, st, df) ==
    CASE op = "get_all_patient_ids" ->
            LET r == GetDistinctValues("open", st, "patient_id")
            IN  [err |-> r.err, val |-> r.val]
      [] op = "get_dependent_options" ->
            LET r == GetDependentOptions(st, args[1], args[2])
            IN  [err |-> r.caught, val |-> r.val]
      [] op = "get_patient_dicom_path" /\ block = 2 ->
            LET dicom_paths == GetDicomPaths(df)
            IN  IF dicom_paths = <<>> THEN Err("FileNotFoundError")
                ELSE Ok(dicom_paths[1])
      [] OTHER -> GetFullFilteredData(st, args[1], args[2], args[3])

\* What the method does with the outcome r of its last with-block: the
\* except clauses, and the statements after the block.
AfterWithBlocks(op, r) ==
    CASE op = "get_all_patient_ids" -> IF r.err # "none" THEN Ok(<<>>) ELSE r
      [] op = "get_dependent_options" ->
            IF r.err # "none" THEN Ok(EmptyOptions) ELSE r
      [] op = "get_patient_filtered_data" ->
            IF r.err # "none" THEN r
            ELSE IF ~HasAttribute("drop") THEN Err("AttributeError")
            ELSE Ok(DropColumns(r.val))
      [] OTHER -> r

CallArgs(op) ==
    CASE op = "get_all_patient_ids" -> {<<>>}
      [] op = "get_dependent_options" ->
            {<<p, s>> : p \in PatientIdArgs, s \in SideArgs \cup {Null}}
      [] OTHER ->
            {<<p, s, v>> : p \in PatientIdArgs \ {""}, s \in SideArgs, v \in ViewArgs}

\* The caller invokes a method; get_dependent_options returns at once when
\* patient_id is empty.
BeginCall ==
    /\ pc \in {"idle", "done"}
    /\ \E op \in OrchestratorOps : \E args \in CallArgs(op) :
         IF op = "get_dependent_options" /\ args[1] = ""
         THEN /\ pc' = "done"
              /\ ret' = [op |-> op, args |-> args, err |-> "none",
                         val |-> EmptyOptions]
         ELSE /\ pc' = "enter"
              /\ ret' = [op |-> op, args |-> args, err |-> "none", val |-> <<>>]
    /\ handles' = <<>>
    /\ UNCHANGED <<ingestVars, store, connection, dicomVars>>

\* with DatabaseHandler(self.db_path) as dbh: a new handle, and __enter__.
\* When connect fails no block is entered and no __exit__ runs.
WithEnter ==
    /\ pc = "enter"
    /\ LET c == Connect(store)
       IN  IF c.err = "none"
           THEN /\ handles' = Append(handles, "open")
                /\ pc' = "body"
                /\ ret' = ret
           ELSE /\ handles' = Append(handles, "None")
                /\ pc' = "done"
                /\ ret' = [ret EXCEPT !.err = AfterWithBlocks(ret.op, Err(c.err)).err,
                                      !.val = AfterWithBlocks(ret.op, Err(c.err)).val]
    /\ UNCHANGED <<ingestVars, store, connection, dicomVars>>

\* The block's statements: they finish, return from inside, or raise.
WithBody ==
    /\ pc = "body"
    /\ LET r == WithBlockBody(ret.op, ret.args, Len(handles), store, ret.val)
       IN  ret' = [ret EXCEPT !.err = r.err, !.val = r.val]
    /\ pc' = "exit"
    /\ UNCHANGED <<ingestVars, store, connection, dicomVars, handles>>

\* __exit__ of the block's handle, then the next block or the method's end.
WithExit ==
    /\ pc = "exit"
    /\ handles' = [handles EXCEPT ![Len(handles)] = CloseOnExit(@)]
    /\ IF ret.op = "get_patient_dicom_path" /\ Len(handles) = 1 /\ ret.err = "none"
       THEN /\ pc' = "enter"
            /\ ret' = ret
       ELSE /\ pc' = "done"
            /\ ret' = [ret EXCEPT !.err = AfterWithBlocks(ret.op, ret).err,
                                  !.val = AfterWithBlocks(ret.op, ret).val]
    /\ UNCHANGED <<ingestVars, store, connection, dicomVars>>

\* Stores a session runs on: unopenable, without the relation, empty, linked,
\* and saved after a failed link.
SessionStores ==
    {Unopenable, NoTable,
     Table(LinkPathsOld(Some(DataFrame(CsvColumns, <<>>)), Some(MetaBase), None).pdf[1]),
     Table(LinkPaths(Some(PriorFindings), Some(MetaBase), None).pdf[1]),
     Table(LinkPaths(Some(PriorFindings), None, None).pdf[1])}

InitSession ==
    /\ csvFindings = None
    /\ csvMetadata = None
    /\ variant = "DataIngestion"
    /\ mass_data_train_df = None
    /\ metadata_df = None
    /\ patient_data_df = None
    /\ database_exists = "unset"
    /\ store \in SessionStores
    /\ connection = "None"
    /\ Idle
    /\ ret = [op |-> "init", args |-> <<>>, err |-> "none", val |-> <<>>]

NextSession ==
    \/ BeginCall
    \/ WithEnter
    \/ WithBody
    \/ WithExit

SpecSession == InitSession /\ [][NextSession]_vars

-----------------------------------------------------------------------------
(* DatabaseHandler: the row filters, on any list of row tuples             *)

\* Two rows as get_rows_by_patient_id fetches them from a linked table.
SampleRows == Table(LinkPaths(Some(PriorFindings), Some(MetaBase), None).pdf[1]).rows

\* Rows a caller can pass: fetched rows, rows whose side or view cell is NULL
\* (an empty CSV cell), and tuples too short to hold the side or view column.
RowArgs ==
    Range(SampleRows)
    \cup {[SampleRows[1] EXCEPT ![3] = Null], [SampleRows[1] EXCEPT ![4] = Null],
          SubSeq(SampleRows[1], 1, 2), SubSeq(SampleRows[1], 1, 3)}

\* Lists of none, one or two such rows (the filters test each row alone).
RowListArgs ==
    {<<>>} \cup {<<r>> : r \in RowArgs} \cup {<<r1, r2>> : r1 \in RowArgs, r2 \in RowArgs}

FilterRet(op, args, r) ==
    [op |-> op, args |-> args, conn |-> connection, err |-> r.err, val |-> r.val,
     q |-> <<>>]

filter_by_breast_side ==
    \E rows \in RowListArgs, side \in SideArgs :
      /\ ret' = FilterRet("filter_by_breast_side", <<rows, side>>,
                          FilterByBreastSide(rows, side))
      /\ UNCHANGED <<ingestVars, store, connection,
                     dicomVars, sessionVars>>

filter_by_image_view ==
    \E rows \in RowListArgs, image_view \in ViewArgs :
      /\ ret' = FilterRet("filter_by_image_view", <<rows, image_view>>,
                          FilterByImageView(rows, image_view))
      /\ UNCHANGED <<ingestVars, store, connection,
                     dicomVars, sessionVars>>

get_dicom_paths ==
    \E rows \in RowListArgs :
      /\ ret' = FilterRet("get_dicom_paths", <<rows>>, Ok(GetDicomPaths(rows)))
      /\ UNCHANGED <<ingestVars, store, connection,
                     dicomVars, sessionVars>>

InitFilter ==
    /\ csvFindings = None
    /\ csvMetadata = None
    /\ variant = "DataIngestion"
    /\ mass_data_train_df = None
    /\ metadata_df = None
    /\ patient_data_df = None
    /\ database_exists = "unset"
    /\ store = Table(DataFrame(CsvColumns \o PathColumns, SampleRows))
    /\ connection = "None"
    /\ Idle
    /\ ret = [op |-> "init", args |-> <<>>, err |-> "none", val |-> <<>>]

NextFilter ==
    \/ filter_by_breast_side
    \/ filter_by_image_view
    \/ get_dicom_paths

SpecFilter == InitFilter /\ [][NextFilter]_vars

-----------------------------------------------------------------------------
(* Every read: query primitives on a held handle, the filters, and the     *)
(* orchestrator's calls, in any order                                      *)

NextReadAll ==
    \/ Next
    \/ NextHandle
    \/ NextFilter

SpecReadAll == InitSession /\ [][NextReadAll]_vars

-----------------------------------------------------------------------------
(* DicomHandler: the first DICOM file of a folder                          *)

MaxEntries == 2

\* tags_to_extract of get_metadata, in order.
tags_to_extract ==
    <<"PatientName", "PatientID", "PatientBirthDate", "PatientSex", "PatientAge",
      "StudyInstanceUID", "SeriesInstanceUID", "SOPInstanceUID", "StudyID",
      "SeriesNumber", "AcquisitionDate", "StudyDescription", "SeriesDescription",
      "Modality", "Manufacturer", "Rows", "Columns", "PixelSpacing">>

\* Which of the tags a file populates: all, some, none.
TagSets ==
    {Range(tags_to_extract),
     Range(tags_to_extract) \ {"PatientAge", "StudyDescription", "PixelSpacing"},
     {}}

\* str(data_element.value)
TagValue(tag) ==
    CASE tag = "PixelSpacing" -> "[0.05, 0.05]"
      [] tag = "Rows" -> "4000"
      [] tag = "Columns" -> "3000"
      [] tag = "Modality" -> "MG"
      [] OTHER -> "value"

\* One directory entry. kind: "dir" (not a file), "notdicom" (dcmread raises
\* InvalidDicomError), "unreadable" (dcmread cannot open the file and raises
\* PermissionError), "dicom" (the header-only read succeeds). For a "dicom"
\* entry: full = the full read succeeds, tags = the tags it populates,
\* pixels = its pixel data decodes.
DirEntry(kind, full, tags, pixels) ==
    [kind |-> kind, full |-> full, tags |-> tags, pixels |-> pixels]

DirEntries ==
    {DirEntry("dir", FALSE, {}, FALSE),
     DirEntry("notdicom", FALSE, {}, FALSE),
     DirEntry("unreadable", FALSE, {}, FALSE),
     DirEntry("dicom", FALSE, {}, FALSE)}
    \cup {DirEntry("dicom", TRUE, t, px) : t \in TagSets, px \in BOOLEAN}

\* What a DICOM path can point to: not a directory, or a directory and its
\* entries in listing order.
Folders ==
    {NoFolder}
    \cup {[is_dir |-> TRUE, entries |-> e] :
            e \in UNION {[1..n -> DirEntries] : n \in 0..MaxEntries}}

\* pydicom.dcmread(file_path, stop_before_pixels=True)
HeaderRead(entry) ==
    CASE entry.kind = "notdicom" -> "InvalidDicomError"
      [] entry.kind = "unreadable" -> "PermissionError"
      [] OTHER -> "none"

\* The for loop of _find_first_dicom_file from entry i on.
RECURSIVE ScanEntries(_, _)
ScanEntries(entries, i) ==
    IF i > Len(entries) THEN Ok(None)
    ELSE IF entries[i].kind = "dir" THEN ScanEntries(entries, i + 1)
    ELSE LET read == HeaderRead(entries[i])
         IN  IF read = "none" THEN Ok(Some(i))
             ELSE IF read = "InvalidDicomError" THEN ScanEntries(entries, i + 1)
             ELSE Err(read)

\* DicomHandler._find_first_dicom_file
FindFirstDicomFile(f) ==
    IF ~f.is_dir THEN Ok(None) ELSE ScanEntries(f.entries, 1)

\* DicomHandler.__init__: the exception it raises (or "none") and the object.
NewDicomHandler(f) ==
    LET found == FindFirstDicomFile(f)
    IN  IF found.err # "none" THEN [err |-> found.err, obj |-> NoDicomHandler]
        ELSE IF found.val = None
        THEN [err |-> "none",
              obj |-> [exists |-> TRUE, dicom_path |-> None, dataset |-> None]]
        ELSE LET entry == f.entries[found.val[1]]
             IN  [err |-> "none",
                  obj |-> [exists |-> TRUE, dicom_path |-> found.val,
                           dataset |-> IF entry.full THEN Some(entry) ELSE None]]

\* DicomHandler.get_pixel_array: None, or the array.
GetPixelArray(dataset) ==
    IF dataset = None THEN None
    ELSE IF dataset[1].pixels THEN Some("ndarray") ELSE None

\* DicomHandler.get_metadata: a dict, as a function from its keys.
GetMetadata(dataset) ==
    IF dataset = None THEN <<>>
    ELSE [tag \in Range(tags_to_extract) |->
             IF tag \in dataset[1].tags THEN TagValue(tag) ELSE "N/A"]

\* PatientDataFilterLogic.get_patient_image_data(dcm_path): the tuple returned.
GetPatientImageData(f) ==
    LET made == NewDicomHandler(f)
    IN  IF made.err # "none" THEN Err(made.err)
        ELSE IF made.obj.dataset = None THEN Err("FileNotFoundError")
        ELSE Ok(<<GetPixelArray(made.obj.dataset), GetMetadata(made.obj.dataset)>>)

DicomRet(op, r) == [op |-> op, err |-> r.err, val |-> r.val]

DicomHandlerInit ==
    LET made == NewDicomHandler(folder)
    IN  /\ dcmh' = made.obj
        /\ ret' = DicomRet("__init__", [err |-> made.err, val |-> made.obj.dicom_path])
        /\ UNCHANGED <<ingestVars, store, connection, folder, sessionVars>>

get_pixel_array ==
    /\ dcmh.exists
    /\ ret' = DicomRet("get_pixel_array", Ok(GetPixelArray(dcmh.dataset)))
    /\ UNCHANGED <<ingestVars, store, connection, dicomVars, sessionVars>>

get_metadata ==
    /\ dcmh.exists
    /\ ret' = DicomRet("get_metadata", Ok(GetMetadata(dcmh.dataset)))
    /\ UNCHANGED <<ingestVars, store, connection, dicomVars, sessionVars>>

get_patient_image_data ==
    /\ ret' = DicomRet("get_patient_image_data", GetPatientImageData(folder))
    /\ UNCHANGED <<ingestVars, store, connection, dicomVars, sessionVars>>

InitDicom ==
    /\ csvFindings = None
    /\ csvMetadata = None
    /\ variant = "DataIngestion"
    /\ mass_data_train_df = None
    /\ metadata_df = None
    /\ patient_data_df = None
    /\ database_exists = "unset"
    /\ store = NoTable
    /\ connection = "None"
    /\ folder \in Folders
    /\ dcmh = NoDicomHandler
    /\ pc = "idle"
    /\ handles = <<>>
    /\ ret = [op |-> "init", err |-> "none", val |-> <<>>]

NextDicom ==
    \/ DicomHandlerInit
    \/ get_pixel_array
    \/ get_metadata
    \/ get_patient_image_data

SpecDicom == InitDicom /\ [][NextDicom]_vars

-----------------------------------------------------------------------------
(* Properties                                                              *)

EqIgnoreCase(a, b) == Upper(a) = Upper(b)

Readable(st) == st.openable /\ st.exists

\* The rows of patient pid whose side and view equal the arguments ignoring
\* case, in stored order.
MatchingRows(st, pid, side, view) ==
    SelectSeq(st.rows, LAMBDA row :
        row[1] = pid /\ EqIgnoreCase(row[3], side) /\ EqIgnoreCase(row[4], view))

RowsOf(st, pid) == SelectSeq(st.rows, LAMBDA row : row[1] = pid)

HasPathColumn(st) == "global image dicom path" \in Range(st.columns)

\* C1: on every persisted, readable relation get_patient_filtered_data returns
\* exactly the rows of the patient whose side and view equal the arguments
\* ignoring case, in stored order (with the internal columns dropped), and so
\* an empty result exactly when no such row exists.
C1_FilterConjunction ==
    (ret.op = "get_patient_filtered_data" /\ Readable(store)) =>
        LET m == MatchingRows(store, ret.args[1], ret.args[2], ret.args[3])
        IN  /\ ret.err = "none"
            /\ ret.val = DropColumns(m)

\* C2: get_patient_filtered_data never raises for "no data": on a readable
\* store where no row matches (the patient may be absent) it returns an empty
\* result.
C2_NoDataIsEmptyResult ==
    (/\ ret.op = "get_patient_filtered_data"
     /\ Readable(store)
     /\ MatchingRows(store, ret.args[1], ret.args[2], ret.args[3]) = <<>>) =>
        (ret.err = "none" /\ ret.val = <<>>)

\* C3 as stated: get_patient_dicom_path raises FileNotFoundError exactly when
\* no row matches or the path column is absent, and in every other case
\* returns a path without raising.
C3_NotFoundIffNoRowOrNoPath ==
    ret.op = "get_patient_dicom_path" =>
        LET m == MatchingRows(store, ret.args[1], ret.args[2], ret.args[3])
            noPath == m = <<>> \/ ~HasPathColumn(store)
        IN  /\ ret.err \in {"FileNotFoundError", "none"}
            /\ Readable(store) => ((ret.err = "FileNotFoundError") <=> noPath)

\* C3 amended: when the store can be opened and holds the relation,
\* get_patient_dicom_path raises FileNotFoundError exactly when no row matches
\* or the path column is absent, and otherwise returns the stored image path
\* of a matching row; when the store cannot be opened or holds no relation the
\* sqlite3 error of the filter is raised instead.
C3_NotFoundOnReadableStore ==
    ret.op = "get_patient_dicom_path" =>
        LET m == MatchingRows(store, ret.args[1], ret.args[2], ret.args[3])
            noPath == m = <<>> \/ ~HasPathColumn(store)
        IN  IF ~Readable(store) THEN ret.err = "sqlite3.OperationalError"
            ELSE /\ (ret.err = "FileNotFoundError") <=> noPath
                 /\ ~noPath => /\ ret.err = "none"
                               /\ \E i \in DOMAIN m : ret.val = m[i][15]

\* C3 witness: rows match, the relation was persisted without the path
\* columns, and the call raised FileNotFoundError.
C3_Witness ==
    /\ ret.op = "get_patient_dicom_path"
    /\ Readable(store)
    /\ MatchingRows(store, ret.args[1], ret.args[2], ret.args[3]) # <<>>
    /\ ~HasPathColumn(store)
    /\ ret.err = "FileNotFoundError"

\* C4: when rows match the triple, the record presented (the first row of
\* what get_patient_filtered_data returns) holds the clinical fields of the
\* first matching row in stored order, and get_patient_dicom_path returns
\* that same row's image path.
C4_FirstMatchingRow ==
    LET m == MatchingRows(store, ret.args[1], ret.args[2], ret.args[3])
    IN  /\ (ret.op = "get_patient_filtered_data" /\ Readable(store) /\ m # <<>>) =>
              (ret.err = "none" /\ ret.val # <<>> /\ ret.val[1] = DropColumns(m)[1])
        /\ (ret.op = "get_patient_dicom_path" /\ Readable(store) /\ m # <<>>
                /\ HasPathColumn(store)) =>
              (ret.err = "none" /\ ret.val = m[1][15])

\* C5: for a patient that has rows, the image-view list of
\* get_dependent_options is, as a set, the views among the patient's rows
\* whose side equals breast_side (all of the patient's rows when it is unset).
C5_ImageViewOptions ==
    (/\ ret.op = "get_dependent_options"
     /\ Readable(store)
     /\ RowsOf(store, ret.args[1]) # <<>>) =>
        LET rows == RowsOf(store, ret.args[1])
            side == ret.args[2]
        IN  Range(ret.val.image_views) =
                {rows[i][4] : i \in {j \in DOMAIN rows :
                                        side = Null \/ EqIgnoreCase(rows[j][3], side)}}

\* C6: the breast-side list of get_dependent_options is the set of sides
\* present in the patient's rows, whatever breast_side is.
C6_BreastSideOptions ==
    (ret.op = "get_dependent_options" /\ Readable(store)) =>
        LET rows == RowsOf(store, ret.args[1])
        IN  Range(ret.val.breast_sides) = {rows[i][3] : i \in DOMAIN rows}

\* C7: on a handle that is not open (never entered, enter failed, or exited)
\* every query primitive fails with ConnectionError and returns no data.
C7_NotOpenIsConnectionError ==
    (/\ ret.op \in {"get_column_names", "get_distinct_values", "get_rows_by_patient_id"}
     /\ ret.conn # "open") =>
        (ret.err = "ConnectionError" /\ ret.val = <<>>)

\* C8: on an open handle get_distinct_values raises ValueError for a column
\* that is not among the relation's columns, before any query naming that
\* column is issued, and never returns values for a column not in the
\* relation.
C8_InvalidColumnRejected ==
    (ret.op = "get_distinct_values" /\ ret.conn = "open") =>
        LET column == ret.args[1]
        IN  /\ (store.exists /\ column \notin Range(store.columns)) =>
                  /\ ret.err = "ValueError"
                  /\ \A i \in DOMAIN ret.q : ret.q[i].column # column
            /\ (~store.exists \/ column \notin Range(store.columns)) =>
                  (ret.err # "none" /\ ret.val = <<>>)

\* C8 witness: an open handle on a relation with rows was asked for a column
\* the relation lacks, and ValueError was raised.
C8_Witness ==
    /\ ret.op = "get_distinct_values"
    /\ ret.conn = "open"
    /\ store.exists
    /\ store.rows # <<>>
    /\ ret.args[1] \notin Range(store.columns)
    /\ ret.err = "ValueError"

\* C9: after a patient_data_sql whose write completed, the relation holds
\* exactly the columns and rows of patient_data_df and nothing it held before;
\* a second identical save leaves the store as the first did.
C9_SaveReplaces ==
    (ret.op = "patient_data_sql" /\ ret.wrote) =>
        LET t == patient_data_df[1]
        IN  /\ store.exists
            /\ store.columns = t.columns
            /\ store.rows = t.rows
            /\ (ret.before.exists /\ ret.before.columns = t.columns
                    /\ ret.before.rows = t.rows) => store = ret.before

\* C9 witness: a completed save over a relation that held a row the new table
\* does not have.
C9_Witness ==
    /\ ret.op = "patient_data_sql"
    /\ ret.wrote
    /\ ret.before.exists
    /\ patient_data_df[1].rows # <<>>
    /\ \E i \in DOMAIN ret.before.rows : ret.before.rows[i] \notin Range(store.rows)

\* A findings row whose image or mask subject has no record in the
\* file-location table.
MissingReference(row, meta) ==
    \/ \A k \in DOMAIN meta : meta[k].SubjectID # row[12][1]
    \/ \A k \in DOMAIN meta : meta[k].SubjectID # row[14][1]

\* C10: with both tables loaded, if some findings row references a subject
\* with no file-location record, patient_data_df_with_dicom_paths raises and
\* patient_data_df carries no derived path; and when the call completes, every
\* derived path was built from a record that matches the row's subject.
C10_MissingReferenceRaises ==
    (/\ ret.op = "patient_data_df_with_dicom_paths"
     /\ mass_data_train_df # None
     /\ metadata_df # None) =>
        LET rows == mass_data_train_df[1].rows
            meta == metadata_df[1]
            out == patient_data_df[1]
        IN  /\ (\E i \in DOMAIN rows : MissingReference(rows[i], meta)) =>
                  /\ ret.err = "IndexError"
                  /\ \A i \in DOMAIN out.rows : Len(out.rows[i]) = Len(CsvColumns)
                  /\ out.columns = CsvColumns
            /\ ret.err = "none" =>
                  \A i \in DOMAIN out.rows :
                     /\ \E k \in DOMAIN meta :
                           /\ meta[k].SubjectID = rows[i][12][1]
                           /\ out.rows[i][15] = PathJoin(data_path, meta[k].FileLocation)
                     /\ \E k \in DOMAIN meta :
                           /\ meta[k].SubjectID = rows[i][14][1]
                           /\ out.rows[i][16] = PathJoin(data_path, meta[k].FileLocation)

\* C10 witness: the first row resolves, the second references a missing
\* subject, and the call raised.
C10_Witness ==
    /\ ret.op = "patient_data_df_with_dicom_paths"
    /\ mass_data_train_df # None
    /\ metadata_df # None
    /\ Len(mass_data_train_df[1].rows) = 2
    /\ ~MissingReference(mass_data_train_df[1].rows[1], metadata_df[1])
    /\ MissingReference(mass_data_train_df[1].rows[2], metadata_df[1])
    /\ ret.err = "IndexError"

\* A findings row whose image or mask subject has more than one record in the
\* file-location table.
AmbiguousReference(row, meta) ==
    \/ Len(SubjectMatches(meta, row[12][1])) > 1
    \/ Len(SubjectMatches(meta, row[14][1])) > 1

\* C11: with both tables loaded, if some findings row's image or mask subject
\* matches more than one file-location record, patient_data_df_with_dicom_paths
\* fails (raises) and patient_data_df carries no derived path chosen from the
\* matching records.
C11_AmbiguousReferenceRaises ==
    (/\ ret.op = "patient_data_df_with_dicom_paths"
     /\ mass_data_train_df # None
     /\ metadata_df # None
     /\ \E i \in DOMAIN mass_data_train_df[1].rows :
           AmbiguousReference(mass_data_train_df[1].rows[i], metadata_df[1])) =>
        /\ ret.err # "none"
        /\ patient_data_df[1].columns = CsvColumns

\* C12: no partial table is persisted: a table with rows that a completed
\* patient_data_sql wrote has the two derived path columns and every row has
\* a value for each of them, whatever steps failed before the save.
C12_NoPartialTable ==
    (ret.op = "patient_data_sql" /\ ret.wrote /\ store.rows # <<>>) =>
        /\ \A k \in DOMAIN PathColumns : PathColumns[k] \in Range(store.columns)
        /\ \A i \in DOMAIN store.rows : Len(store.rows[i]) = Len(store.columns)

\* C13: get_metadata returns, however the handler's load ended and whichever
\* tags the file populates, a mapping whose key set is exactly the fixed tag
\* list, with "N/A" for every field that is missing or could not be read.
C13_TagCompleteness ==
    ret.op = "get_metadata" =>
        /\ DOMAIN ret.val = Range(tags_to_extract)
        /\ \A tag \in DOMAIN ret.val :
              (dcmh.dataset = None \/ tag \notin dcmh.dataset[1].tags) =>
                  ret.val[tag] = "N/A"

\* The entries of a folder whose header-only read succeeds.
ValidEntries(f) ==
    {i \in DOMAIN f.entries : f.entries[i].kind = "dicom"}

\* C14: constructing a DicomHandler never raises out of the scan; dicom_path
\* is the first entry in listing order whose header-only read succeeds, and
\* None when no entry validates or the path is not a directory.
C14_FirstValidEntry ==
    ret.op = "__init__" =>
        /\ ret.err = "none"
        /\ IF ~folder.is_dir \/ ValidEntries(folder) = {}
           THEN ret.val = None
           ELSE ret.val = Some(CHOOSE i \in ValidEntries(folder) :
                                  \A j \in ValidEntries(folder) : i <= j)

\* C16: for every folder from which an image loads (its first valid file
\* reads in full and its pixel data decodes), get_patient_image_data returns
\* three values: a pixel array that is not None, the metadata, and the pixel
\* spacing as a list of two floats.
C16_ImageDataTriple ==
    (/\ ret.op = "get_patient_image_data"
     /\ NewDicomHandler(folder).err = "none"
     /\ NewDicomHandler(folder).obj.dataset # None
     /\ NewDicomHandler(folder).obj.dataset[1].pixels) =>
        /\ ret.err = "none"
        /\ Len(ret.val) = 3
        /\ ret.val[1] # None
        /\ ret.val[3] \in {<<"float", "float">>}

\* C17: filter_by_breast_side and filter_by_image_view never raise, whatever
\* rows they are given: they return, in order, exactly the rows that hold the
\* column with a non-null value equal to the argument ignoring case (so an
\* empty list when rows are too short, null, or do not match).
C17_FiltersNeverRaise ==
    ret.op \in {"filter_by_breast_side", "filter_by_image_view"} =>
        LET pos == IF ret.op = "filter_by_breast_side" THEN 3 ELSE 4
        IN  /\ ret.err = "none"
            /\ ret.val = SelectSeq(ret.args[1], LAMBDA row :
                            /\ Len(row) >= pos
                            /\ row[pos] # Null
                            /\ EqIgnoreCase(row[pos], ret.args[2]))

\* C18: when the store cannot be opened, or cannot be queried because it
\* holds no patients relation, get_all_patient_ids and get_dependent_options
\* (called with a patient id) raise that error to their caller instead of
\* returning an empty list or empty options.
C18_ErrorsReachCaller ==
    (/\ ret.op \in {"get_all_patient_ids", "get_dependent_options"}
     /\ ret.op = "get_dependent_options" => ret.args[1] # ""
     /\ ~Readable(store)) =>
        ret.err = "sqlite3.OperationalError"

OpenHandles == {i \in DOMAIN handles : handles[i] = "open"}

\* C15: during an orchestrator call at most one connection opened by the call
\* is open, and when the call has returned or raised (normal return, return
\* from inside the block, or exception) none is.
C15_ConnectionsReleased ==
    /\ Cardinality(OpenHandles) <= 1
    /\ pc = "done" => OpenHandles = {}
    /\ pc = "enter" => OpenHandles = {}

\* C15 witness: get_patient_dicom_path has raised FileNotFoundError from
\* inside its second block, after both of its handles had been opened.
C15_Witness ==
    /\ pc = "done"
    /\ ret.op = "get_patient_dicom_path"
    /\ ret.err = "FileNotFoundError"
    /\ Len(handles) = 2
    /\ \A i \in DOMAIN handles : handles[i] = "closed"

\* C19: no read changes the persisted relation (its columns, rows and row
\* order stay as the last save left them), and an orchestrator call repeated
\* with the same arguments gives the same outcome.
C19_ReadsLeaveStore ==
    [][/\ store' = store
       /\ (ret.op \in OrchestratorOps /\ ret'.op = ret.op /\ ret'.args = ret.args) =>
             (ret'.err = ret.err /\ ret'.val = ret.val)]_vars

\* C19 witness: on a held handle that is open, rows of a patient were fetched
\* from a relation that holds rows.
C19_Witness ==
    /\ ret.op = "get_rows_by_patient_id"
    /\ ret.conn = "open"
    /\ ret.err = "none"
    /\ ret.val # <<>>
    /\ store.rows # <<>>

\* A relation written by an ingestion that completed: it holds the linked
\* table, with the derived path columns.
CompletedIngestion(st) ==
    Readable(st) /\ \A k \in DOMAIN PathColumns : PathColumns[k] \in Range(st.columns)

C21_OutOfOrderStepsAreNoOps ==
    /\ (/\ variant = "DataIngestion"
        /\ ret.op = "patient_data_df_with_dicom_paths"
        /\ mass_data_train_df = None) =>
           (ret.err = "none" /\ patient_data_df = None)
    /\ (/\ variant = "DataIngestion"
        /\ ret.op = "patient_data_sql"
        /\ patient_data_df = None) =>
           /\ ret.err = "none"
           /\ ~ret.wrote
           /\ ~ret.verified
           /\ database_exists = "unset"
    /\ ret.wrote => (mass_data_train_df # None /\ patient_data_df # None)
    /\ ~ret.wrote => store = ret.before

\* C21 witness: patient_data_sql was called on an object with no augmented
\* table, over a store that holds an earlier relation, although the findings
\* file was there to load.
C21_Witness ==
    /\ variant = "DataIngestion"
    /\ ret.op = "patient_data_sql"
    /\ patient_data_df = None
    /\ csvFindings # None
    /\ store.exists
    /\ store = ret.before

\* C22: whenever DataIngestion.patient_data_sql gets past its pre-check, on
\* return database_exists is True exactly when the table write of that call
\* completed, the read-back was attempted only with database_exists True, no
\* exception left the call, and a failed write left the relation as it was.
C22_DatabaseExistsTracksWrite ==
    (/\ variant = "DataIngestion"
     /\ ret.op = "patient_data_sql"
     /\ patient_data_df # None) =>
        /\ database_exists = (IF ret.wrote THEN "True" ELSE "False")
        /\ ret.verified => database_exists = "True"
        /\ ret.err = "none"
        /\ ~ret.wrote => store = ret.before

\* C22 witness: a write failed on a store that can be opened and holds the
\* relation of an earlier save.
C22_Witness ==
    /\ variant = "DataIngestion"
    /\ ret.op = "patient_data_sql"
    /\ patient_data_df # None
    /\ ~ret.wrote
    /\ database_exists = "False"
    /\ store.openable
    /\ store.exists

====
